---- MODULE Spec2Model ----
(***************************************************************************)
(* Model of rag-tools (main.py): the PDF extractor read_pdf, the           *)
(* transactional writer store_documents, the reader                        *)
(* retrieve_pages_from_db and the --parse branch of the command line.      *)
(*                                                                         *)
(* A text is a sequence of characters; "NUL" stands for U+0000 and "FFFD"  *)
(* for U+FFFD.  The database is two tables of committed rows plus, per     *)
(* open connection, the rows written inside its still open transaction.    *)
(***************************************************************************)
EXTENDS Integers, Sequences, FiniteSets, TLC

\* ---------------------------------------------------------------- bounds
MaxPages == 2
MaxLen == 3

\* ------------------------------------------------------------ characters
NUL == "NUL"
FFFD == "FFFD"
Chars == {"a", " ", "\n", NUL}

\* str.isspace() of the characters of the model
IsSpace(c) == c \in {" ", "\n"}

RECURSIVE SeqsUpTo(_, _)
SeqsUpTo(S, n) ==
  IF n = 0 THEN {<<>>}
  ELSE LET shorter == SeqsUpTo(S, n - 1)
       IN  shorter \cup {Append(s, x) : s \in {t \in shorter : Len(t) = n - 1}, x \in S}

\* ------------------------------------------------- the PDF library's view
\* What page.extract_text() does on one page: returns a string, returns
\* None, or raises.
TextPage(t) == [kind |-> "text", text |-> t, exc |-> "none"]
NonePage == [kind |-> "none", text |-> <<>>, exc |-> "none"]
RaisingPage(e) == [kind |-> "raise", text |-> <<>>, exc |-> e]

\* What open() and PdfReader() do on a path: FileNotFoundError, PdfReadError,
\* another exception (a directory, no permission, an encrypted document), or
\* a reader with its pages.
MissingFile == [kind |-> "missing", name |-> "doc.pdf", pages |-> <<>>]
InvalidFile == [kind |-> "invalid", name |-> "doc.pdf", pages |-> <<>>]
UnreadableFile == [kind |-> "unreadable", name |-> "doc.pdf", pages |-> <<>>]
PdfFile(ps) == [kind |-> "pdf", name |-> "doc.pdf", pages |-> ps]

\* ---------------------------------------------------------------- read_pdf
\* line 45: str.replace(old, new), every occurrence
RECURSIVE replace(_, _, _)
replace(text, old, new) ==
  IF text = <<>> THEN <<>>
  ELSE <<IF Head(text) = old THEN new ELSE Head(text)>> \o replace(Tail(text), old, new)

\* text.split(): skip a run of whitespace, then cut one token at the next
\* whitespace, until the text is used up
RECURSIVE split_from(_, _, _, _)
split_from(text, i, token, tokens) ==
  IF i > Len(text)
  THEN IF token = <<>> THEN tokens ELSE Append(tokens, token)
  ELSE IF IsSpace(text[i])
       THEN split_from(text, i + 1, <<>>,
                       IF token = <<>> THEN tokens ELSE Append(tokens, token))
       ELSE split_from(text, i + 1, Append(token, text[i]), tokens)

split(text) == split_from(text, 1, <<>>, <<>>)

\* lines 38-42: extract_text() with None turned into ""
extracted_text(page) == IF page.kind = "none" THEN <<>> ELSE page.text

sanitize_removing(text) == SelectSeq(text, LAMBDA c : c # NUL)

\* line 45
sanitize(text) == replace(text, NUL, FFFD)

\* lines 37-55: the Page Record of page i (0-based index i, as in the loop)
page_record(i, page) ==
  LET text == sanitize(extracted_text(page))
  IN  [pageNumber |-> i + 1,
       text |-> text,
       numCharacters |-> Len(text),
       numWords |-> Len(split(text))]

Returned(v, msg) == [raised |-> "none", value |-> v, printed |-> msg]

handler_partial(exc, pages_data) ==
  IF exc = "PdfReadError" THEN Returned(pages_data, "Error: Could not read PDF file")
  ELSE IF exc = "FileNotFoundError" THEN Returned(pages_data, "Error: File not found")
  ELSE Returned(pages_data, "An unexpected error occurred")

\* lines 56-64: the three except clauses
handler(exc, pages_data) ==
  IF exc = "PdfReadError" THEN Returned(<<>>, "Error: Could not read PDF file")
  ELSE IF exc = "FileNotFoundError" THEN Returned(<<>>, "Error: File not found")
  ELSE Returned(<<>>, "An unexpected error occurred")

\* lines 36-55: the loop over range(num_pages), from 0-based index i on
RECURSIVE read_loop(_, _, _)
read_loop(raw, i, pages_data) ==
  IF i >= Len(raw) THEN Returned(pages_data, "")
  ELSE IF raw[i + 1].kind = "raise" THEN handler(raw[i + 1].exc, pages_data)
       ELSE read_loop(raw, i + 1, Append(pages_data, page_record(i, raw[i + 1])))

\* lines 30-66
read_pdf(file) ==
  IF file.kind = "missing" THEN handler("FileNotFoundError", <<>>)
  ELSE IF file.kind = "invalid" THEN handler("PdfReadError", <<>>)
  ELSE IF file.kind = "unreadable" THEN handler("Exception", <<>>)
  ELSE read_loop(file.pages, 0, <<>>)

\* ------------------------------------------------------ inputs of read_pdf
Texts == SeqsUpTo(Chars, MaxLen)
RawPages == {TextPage(t) : t \in Texts} \cup {NonePage}
              \cup {RaisingPage(e) : e \in {"PdfReadError", "Exception"}}
PageLists(P) == SeqsUpTo(P, MaxPages)

\* the texts of the files given to the command line and to direct calls
StoreTexts == {<<>>, <<"a", " ", NUL>>}
StoreRawPages == {TextPage(t) : t \in StoreTexts}

\* the files given to read_pdf: no file, no document, the empty document,
\* and the page lists made of sample pages and one page that may be any of
\* RawPages, at any position
SampleRawPages == StoreRawPages \cup {NonePage}
                    \cup {RaisingPage(e) : e \in {"PdfReadError", "Exception"}}
InsertAt(ps, k, r) ==
  LET at == IF k > Len(ps) + 1 THEN Len(ps) + 1 ELSE k
  IN  SubSeq(ps, 1, at - 1) \o <<r>> \o SubSeq(ps, at, Len(ps))
Files ==
  {MissingFile, InvalidFile, UnreadableFile, PdfFile(<<>>)}
    \cup {PdfFile(InsertAt(ps, k, r)) :
            ps \in SeqsUpTo(SampleRawPages, MaxPages - 1), k \in 1..MaxPages, r \in RawPages}

NoFile == [kind |-> "nofile", name |-> "", pages |-> <<>>]
NotCalled == [raised |-> "notcalled", value |-> <<>>, printed |-> ""]

\* file_path: the file a call of read_pdf is given; read_result: what the
\* call did (the value it returned, what it printed, what it raised)
VARIABLES file_path, read_result

evars == <<file_path, read_result>>

\* ------------------------------------------------------------- the database
\* psycopg.connect(...) is called without autocommit: the statements of one
\* connection form one transaction, committed when the with block is left
\* normally and rolled back when it is left by an exception.
autocommit_on == TRUE

\* lines 84-89
autocommit == FALSE

Procs == {"p1", "p2"}

\* documents, raw_pages: the committed rows of the two tables;
\* document_id_seq, text_id_seq: the generators of the two keys; now: the
\* clock read by datetime.now().
\* Per process: pc, the position in store_documents or in the command line;
\* caller, who called store_documents ("main" or "direct"); path, the file of
\* a --parse run; file_name and pages, the arguments of store_documents;
\* document_id and page_records, its locals (page_records: the tuples still
\* to insert); tx, the rows written in its open transaction; stdout, the
\* lines printed; exit_code, the status of the process (-1 while it runs).
\* History: opened, whether the call connected; failed, the statement that
\* raised; before, the tables when the call began; ingested, the document_id
\* generated for each page list; ncommits, the commits so far.
\* retrieved: the last answer a reader got.
VARIABLES documents, raw_pages, document_id_seq, text_id_seq, now,
          pc, caller, path, file_name, pages, document_id, page_records, tx,
          stdout, exit_code, opened, failed, before, ingested, ncommits,
          retrieved

dbvars == <<documents, raw_pages, document_id_seq, text_id_seq, now>>
callvars == <<caller, path, file_name, pages>>
localvars == <<document_id, page_records, tx>>
ghostvars == <<opened, failed, before, ingested, ncommits>>
vars == <<dbvars, pc, callvars, localvars, stdout, exit_code, ghostvars,
          retrieved, evars>>

NoTx == [documents |-> {}, raw_pages |-> {}]
NoId == 0

\* the inputs of the command line and of direct calls
StoreFiles == {MissingFile, InvalidFile, UnreadableFile} \cup {PdfFile(ps) : ps \in PageLists(StoreRawPages)}
StorePageLists == {read_pdf(f).value : f \in StoreFiles}

StoreInit ==
  /\ documents = {}
  /\ raw_pages = {}
  /\ document_id_seq = 0
  /\ text_id_seq = 0
  /\ now = 0
  /\ pc = [p \in Procs |-> "idle"]
  /\ caller = [p \in Procs |-> "none"]
  /\ path = [p \in Procs |-> NoFile]
  /\ file_name = [p \in Procs |-> ""]
  /\ pages = [p \in Procs |-> <<>>]
  /\ document_id = [p \in Procs |-> NoId]
  /\ page_records = [p \in Procs |-> <<>>]
  /\ tx = [p \in Procs |-> NoTx]
  /\ stdout = [p \in Procs |-> <<>>]
  /\ exit_code = [p \in Procs |-> -1]
  /\ opened = [p \in Procs |-> FALSE]
  /\ failed = [p \in Procs |-> "none"]
  /\ before = [p \in Procs |-> [documents |-> {}, raw_pages |-> {}, ncommits |-> 0]]
  /\ ingested = {}
  /\ ncommits = 0
  /\ retrieved = [document_id |-> NoId, rows |-> <<>>]

Init ==
  /\ StoreInit
  /\ file_path = NoFile
  /\ read_result = NotCalled

Say(out, p, msgs) == [out EXCEPT ![p] = @ \o msgs]

\* ----------------------------------------------------------- store_documents
no_pages_never(pgs) == FALSE

\* line 78: "if not pages"
no_pages(pgs) == pgs = <<>>

page_records_unfiltered(id, pgs) ==
  [k \in 1..Len(pgs) |-> [document_id |-> id,
                          page_text |-> pgs[k].text,
                          page_number |-> pgs[k].pageNumber,
                          number_words |-> pgs[k].numWords,
                          number_characters |-> pgs[k].numCharacters]]

\* lines 108-117: one tuple per page whose text is truthy
RECURSIVE page_records_of(_, _)
page_records_of(id, pgs) ==
  IF pgs = <<>> THEN <<>>
  ELSE LET page_info == Head(pgs)
           rest == page_records_of(id, Tail(pgs))
       IN  IF page_info.text # <<>>
           THEN <<[document_id |-> id,
                   page_text |-> page_info.text,
                   page_number |-> page_info.pageNumber,
                   number_words |-> page_info.numWords,
                   number_characters |-> page_info.numCharacters]>> \o rest
           ELSE rest

commit_on_exception(committed, pending) == committed \cup pending

\* lines 84-89: leaving "with psycopg.connect(...) as conn" by an exception
\* rolls the transaction back
exit_by_exception(committed, pending) == committed

\* lines 84-89: leaving the with block normally commits the transaction
exit_normally(committed, pending) == committed \cup pending

\* the value store_documents returns: it has no return statement with a value
store_documents_result == "None"

\* a call of store_documents(name, pgs) by process p starts
Enter(p, who, f, name, pgs) ==
  /\ pc' = [pc EXCEPT ![p] = "store_documents"]
  /\ caller' = [caller EXCEPT ![p] = who]
  /\ path' = [path EXCEPT ![p] = f]
  /\ file_name' = [file_name EXCEPT ![p] = name]
  /\ pages' = [pages EXCEPT ![p] = pgs]
  /\ before' = [before EXCEPT ![p] = [documents |-> documents,
                                      raw_pages |-> raw_pages,
                                      ncommits |-> ncommits]]

\* a direct call store_documents(name, pgs), pgs a result of read_pdf
CallStoreDocuments(p, pgs) ==
  /\ pc[p] = "idle"
  /\ Enter(p, "direct", NoFile, "doc.pdf", pgs)
  /\ UNCHANGED <<dbvars, localvars, stdout, exit_code, opened, failed,
                 ingested, ncommits, retrieved, evars>>

\* lines 78-90: the guard, then connect() and cursor()
StoreDocuments(p) ==
  /\ pc[p] = "store_documents"
  /\ IF no_pages(pages[p])
     THEN /\ stdout' = Say(stdout, p, <<"No pages provided for storage. Exiting...">>)
          /\ pc' = [pc EXCEPT ![p] = "returned"]
          /\ UNCHANGED opened
     ELSE /\ opened' = [opened EXCEPT ![p] = TRUE]
          /\ pc' = [pc EXCEPT ![p] = "insert_document"]
          /\ UNCHANGED stdout
  /\ UNCHANGED <<dbvars, callvars, localvars, exit_code, failed, before,
                 ingested, ncommits, retrieved, evars>>

\* lines 84-89: connect() raises (server down, bad password)
ConnectFails(p) ==
  /\ pc[p] = "store_documents"
  /\ ~ no_pages(pages[p])
  /\ pc' = [pc EXCEPT ![p] = "raised"]
  /\ failed' = [failed EXCEPT ![p] = "connect"]
  /\ UNCHANGED <<dbvars, callvars, localvars, stdout, exit_code, opened,
                 before, ingested, ncommits, retrieved, evars>>

\* lines 91-117: INSERT INTO documents ... RETURNING document_id, then the
\* list of page tuples
InsertDocument(p) ==
  /\ pc[p] = "insert_document"
  /\ LET id == document_id_seq + 1
         row == [document_id |-> id, name |-> file_name[p], created_at |-> now]
     IN  /\ document_id_seq' = id
         /\ now' = now + 1
         /\ IF autocommit
            THEN /\ documents' = documents \cup {row}
                 /\ tx' = tx
            ELSE /\ tx' = [tx EXCEPT ![p].documents = @ \cup {row}]
                 /\ documents' = documents
         /\ document_id' = [document_id EXCEPT ![p] = id]
         /\ page_records' = [page_records EXCEPT ![p] = page_records_of(id, pages[p])]
         /\ ingested' = ingested \cup {[document_id |-> id, pages |-> pages[p]]}
         /\ stdout' = Say(stdout, p, <<"Storing document", "Document stored with document_id",
                                         "Storing pages into 'raw_pages' table...">>)
  /\ pc' = [pc EXCEPT ![p] = "insert_pages"]
  /\ UNCHANGED <<raw_pages, text_id_seq, callvars, exit_code, opened, failed,
                 before, ncommits, retrieved, evars>>

\* lines 119-120: one INSERT INTO raw_pages
InsertPage(p) ==
  /\ pc[p] = "insert_pages"
  /\ page_records[p] # <<>>
  /\ LET record == Head(page_records[p])
         row == [text_id |-> text_id_seq + 1,
                 document_id |-> record.document_id,
                 page_text |-> record.page_text,
                 page_number |-> record.page_number,
                 number_words |-> record.number_words,
                 number_characters |-> record.number_characters]
     IN  /\ text_id_seq' = text_id_seq + 1
         /\ IF autocommit
            THEN /\ raw_pages' = raw_pages \cup {row}
                 /\ tx' = tx
            ELSE /\ tx' = [tx EXCEPT ![p].raw_pages = @ \cup {row}]
                 /\ raw_pages' = raw_pages
  /\ page_records' = [page_records EXCEPT ![p] = Tail(@)]
  /\ UNCHANGED <<documents, document_id_seq, now, pc, callvars, document_id,
                 stdout, exit_code, ghostvars, retrieved, evars>>

\* lines 98, 120: cur.execute raises; the with block of the connection is
\* left by the exception, which rolls the transaction back and re-raises
ExecuteFails(p) ==
  /\ \/ pc[p] = "insert_document"
     \/ pc[p] = "insert_pages" /\ page_records[p] # <<>>
  /\ failed' = [failed EXCEPT ![p] = IF pc[p] = "insert_document" THEN "document"
                                     ELSE IF Len(page_records[p]) = 1 THEN "last page"
                                     ELSE "page"]
  /\ documents' = exit_by_exception(documents, tx[p].documents)
  /\ raw_pages' = exit_by_exception(raw_pages, tx[p].raw_pages)
  /\ tx' = [tx EXCEPT ![p] = NoTx]
  /\ pc' = [pc EXCEPT ![p] = "raised"]
  /\ UNCHANGED <<document_id_seq, text_id_seq, now, callvars, document_id,
                 page_records, stdout, exit_code, opened, before, ingested,
                 ncommits, retrieved, evars>>

\* lines 120-123: the loop is over, the with block is left normally: commit
Commit(p) ==
  /\ pc[p] = "insert_pages"
  /\ page_records[p] = <<>>
  /\ documents' = exit_normally(documents, tx[p].documents)
  /\ raw_pages' = exit_normally(raw_pages, tx[p].raw_pages)
  /\ tx' = [tx EXCEPT ![p] = NoTx]
  /\ ncommits' = ncommits + 1
  /\ stdout' = Say(stdout, p, <<"Successfully stored document">>)
  /\ pc' = [pc EXCEPT ![p] = "returned"]
  /\ UNCHANGED <<document_id_seq, text_id_seq, now, callvars, document_id,
                 page_records, exit_code, opened, failed, before, ingested,
                 retrieved, evars>>

\* ------------------------------------------------------ the retrieval path
RECURSIVE order_by_page_number_desc(_)
order_by_page_number_desc(rows) ==
  IF rows = {} THEN <<>>
  ELSE LET first == CHOOSE r \in rows : \A o \in rows : r.page_number >= o.page_number
       IN  <<first>> \o order_by_page_number_desc(rows \ {first})

\* line 155: ORDER BY page_number
RECURSIVE order_by_page_number(_)
order_by_page_number(rows) ==
  IF rows = {} THEN <<>>
  ELSE LET first == CHOOSE r \in rows : \A o \in rows : r.page_number <= o.page_number
       IN  <<first>> \o order_by_page_number(rows \ {first})

\* lines 126-135 with the statement of lines 151-156: a new connection sees
\* the committed rows only
query(d) == order_by_page_number({r \in raw_pages : r.document_id = d})

\* lines 150-170
retrieve_pages_from_db(d) ==
  LET rows == query(d)
  IN  [k \in 1..Len(rows) |-> [text_id |-> rows[k].text_id,
                               document_id |-> rows[k].document_id,
                               page_text |-> rows[k].page_text,
                               page_number |-> rows[k].page_number,
                               number_words |-> rows[k].number_words,
                               number_characters |-> rows[k].number_characters]]

\* a reader (the --retrieve branch, lines 217-220) asks for document d
Retrieve(d) ==
  /\ retrieved' = [document_id |-> d, rows |-> retrieve_pages_from_db(d)]
  /\ UNCHANGED <<dbvars, pc, callvars, localvars, stdout, exit_code,
                 ghostvars, evars>>

\* --------------------------------------------------- the command line, --parse
\* Python truthiness of the value bound to stored_doc_id
truthy(v) == v # "None" /\ v # 0

exists_unchecked(f) == TRUE

\* line 198: os.path.exists(pdf_file_path)
os_path_exists(f) == f.kind # "missing"

\* lines 196-205 and 210-215: up to the call of store_documents
MainParse(p, f) ==
  /\ pc[p] = "idle"
  /\ IF os_path_exists(f)
     THEN LET r == read_pdf(f)
              extracted_pages == r.value
              begun == <<"--- Starting PDF processing">> \o
                         (IF r.printed = "" THEN <<>> ELSE <<r.printed>>)
          IN  IF r.raised # "none"
              THEN /\ pc' = [pc EXCEPT ![p] = "exited"]
                   /\ exit_code' = [exit_code EXCEPT ![p] = 1]
                   /\ stdout' = Say(stdout, p, begun)
                   /\ path' = [path EXCEPT ![p] = f]
                   /\ caller' = [caller EXCEPT ![p] = "main"]
                   /\ UNCHANGED <<file_name, pages, before>>
              ELSE IF extracted_pages # <<>>
              THEN /\ Enter(p, "main", f, f.name, extracted_pages)
                   /\ stdout' = Say(stdout, p, begun)
                   /\ UNCHANGED exit_code
              ELSE /\ pc' = [pc EXCEPT ![p] = "exited"]
                   /\ exit_code' = [exit_code EXCEPT ![p] = 0]
                   /\ stdout' = Say(stdout, p, begun \o
                                    <<"No pages extracted. Nothing to store.",
                                      "--- Finished processing PDF">>)
                   /\ path' = [path EXCEPT ![p] = f]
                   /\ caller' = [caller EXCEPT ![p] = "main"]
                   /\ UNCHANGED <<file_name, pages, before>>
     ELSE /\ pc' = [pc EXCEPT ![p] = "exited"]
          /\ exit_code' = [exit_code EXCEPT ![p] = 1]
          /\ stdout' = Say(stdout, p, <<"Error: The specified PDF file was not found.">>)
          /\ path' = [path EXCEPT ![p] = f]
          /\ caller' = [caller EXCEPT ![p] = "main"]
          /\ UNCHANGED <<file_name, pages, before>>
  /\ UNCHANGED <<dbvars, localvars, opened, failed, ingested, ncommits,
                 retrieved, evars>>

\* lines 205-212: store_documents returned; the process then ends normally
MainAfterStore(p) ==
  /\ pc[p] = "returned"
  /\ caller[p] = "main"
  /\ LET stored_doc_id == store_documents_result
     IN  stdout' = Say(stdout, p,
                       <<IF truthy(stored_doc_id)
                         THEN "Document and pages stored successfully with Document ID"
                         ELSE "Failed to store document and pages.",
                         "--- Finished processing PDF">>)
  /\ exit_code' = [exit_code EXCEPT ![p] = 0]
  /\ pc' = [pc EXCEPT ![p] = "exited"]
  /\ UNCHANGED <<dbvars, callvars, localvars, ghostvars, retrieved, evars>>

\* line 205: store_documents raised; nothing catches it, the interpreter
\* writes the traceback to stderr and ends with status 1
MainUncaught(p) ==
  /\ pc[p] = "raised"
  /\ caller[p] = "main"
  /\ exit_code' = [exit_code EXCEPT ![p] = 1]
  /\ pc' = [pc EXCEPT ![p] = "exited"]
  /\ UNCHANGED <<dbvars, callvars, localvars, stdout, ghostvars, retrieved, evars>>

Next ==
  \/ \E p \in Procs, f \in StoreFiles : MainParse(p, f)
  \/ \E p \in Procs, pgs \in StorePageLists : CallStoreDocuments(p, pgs)
  \/ \E p \in Procs : StoreDocuments(p)
  \/ \E p \in Procs : ConnectFails(p)
  \/ \E p \in Procs : InsertDocument(p)
  \/ \E p \in Procs : InsertPage(p)
  \/ \E p \in Procs : ExecuteFails(p)
  \/ \E p \in Procs : Commit(p)
  \/ \E p \in Procs : MainAfterStore(p)
  \/ \E p \in Procs : MainUncaught(p)
  \/ \E d \in 1..(document_id_seq + 1) : Retrieve(d)

Spec == Init /\ [][Next]_vars

\* ------------------------------------------------ read_pdf called on its own
InitExtract ==
  /\ StoreInit
  /\ file_path \in Files
  /\ read_result = NotCalled

\* one call read_pdf(file_path)
CallReadPdf ==
  /\ read_result = NotCalled
  /\ read_result' = read_pdf(file_path)
  /\ UNCHANGED <<file_path, dbvars, pc, callvars, localvars, stdout,
                 exit_code, ghostvars, retrieved>>

NextExtract == CallReadPdf

SpecExtract == InitExtract /\ [][NextExtract]_vars

\* =================================================================== claims
\* the store_documents call of process p is over
CallEnded(p) ==
  \/ pc[p] \in {"returned", "raised"}
  \/ pc[p] = "exited" /\ pages[p] # <<>>

\* the call of process p left the function by an exception
Propagated(p) ==
  \/ pc[p] = "raised"
  \/ /\ pc[p] = "exited"
     /\ exit_code[p] = 1
     /\ \A k \in 1..Len(stdout[p]) : stdout[p][k] # "--- Finished processing PDF"

DocumentRows(d) == {r \in documents : r.document_id = d}
PageRows(d) == {r \in raw_pages : r.document_id = d}

\* K of a Page Record sequence: how many records have non-empty text
NonEmptyCount(pgs) == Cardinality({k \in 1..Len(pgs) : pgs[k].text # <<>>})

NoOtherCommit(p) == ncommits = before[p].ncommits

\* C1: when an insert of a store_documents call fails (the Document insert
\* or any page insert, the last one included), then once the call is over
\* the store holds no Document row and no Stored Page row of that call, the
\* store equals the store before the call (no other call having committed
\* meanwhile), and the error has reached the caller.
C1_RollbackOnFailedInsert ==
  \A p \in Procs :
    (failed[p] \in {"document", "page", "last page"} /\ CallEnded(p)) =>
      /\ Propagated(p)
      /\ \A r \in documents : r.document_id # document_id[p]
      /\ \A r \in raw_pages : r.document_id # document_id[p]
      /\ NoOtherCommit(p) => /\ documents = before[p].documents
                             /\ raw_pages = before[p].raw_pages

C1_Witness ==
  \E p \in Procs :
    /\ failed[p] = "last page"
    /\ pc[p] = "raised"
    /\ Len(pages[p]) = 2
    /\ NonEmptyCount(pages[p]) = 2
    /\ Len(page_records[p]) = 1
    /\ document_id[p] # NoId
    /\ documents # {}
    /\ documents = before[p].documents

Committed(p) ==
  /\ pc[p] \in {"returned", "exited"}
  /\ pages[p] # <<>>
  /\ failed[p] = "none"

\* C2: a store_documents call on N >= 1 Page Records, K of them with
\* non-empty text, that commits has added exactly one Document row and
\* exactly K Stored Page rows, each carrying the generated document_id and
\* the pageNumber, numWords and numCharacters of its Page Record.
C2_CommitAddsOneDocumentAndKPages ==
  \A p \in Procs :
    Committed(p) =>
      LET d == document_id[p]
          K == NonEmptyCount(pages[p])
      IN  /\ Cardinality(DocumentRows(d)) = 1
          /\ DocumentRows(d) \cap before[p].documents = {}
          /\ Cardinality(PageRows(d)) = K
          /\ PageRows(d) \cap before[p].raw_pages = {}
          /\ \A k \in 1..Len(pages[p]) :
               pages[p][k].text # <<>> =>
                 \E r \in PageRows(d) :
                   /\ r.page_number = pages[p][k].pageNumber
                   /\ r.number_words = pages[p][k].numWords
                   /\ r.number_characters = pages[p][k].numCharacters
          /\ NoOtherCommit(p) \/ ncommits = before[p].ncommits + 1 =>
               /\ before[p].documents \subseteq documents
               /\ before[p].raw_pages \subseteq raw_pages
          /\ ncommits = before[p].ncommits + 1 =>
               /\ Cardinality(documents) = Cardinality(before[p].documents) + 1
               /\ Cardinality(raw_pages) = Cardinality(before[p].raw_pages) + K

C2_Witness ==
  \E p \in Procs :
    /\ Committed(p)
    /\ Len(pages[p]) = 2
    /\ NonEmptyCount(pages[p]) = 1
    /\ Cardinality(PageRows(document_id[p])) = 1
    /\ before[p].documents # {}

\* C3 as stated: every persisted Document row has at least one Stored Page.
C3_EveryDocumentHasAPage ==
  \A doc \in documents : PageRows(doc.document_id) # {}

\* C3, amended: every persisted Document row comes from a call on a
\* non-empty Page Record sequence and has all K Stored Pages of that call
\* (never some but not all); it has no page only when K = 0, that is, when
\* every Page Record of the call had empty text.
C3_DocumentHasAllItsPages ==
  \A doc \in documents :
    \E g \in ingested :
      /\ g.document_id = doc.document_id
      /\ g.pages # <<>>
      /\ Cardinality(PageRows(doc.document_id)) = NonEmptyCount(g.pages)
      /\ PageRows(doc.document_id) = {} <=> \A k \in 1..Len(g.pages) : g.pages[k].text = <<>>

C3_Witness ==
  \E doc \in documents, g \in ingested :
    /\ g.document_id = doc.document_id
    /\ Len(g.pages) = 2
    /\ PageRows(doc.document_id) = {}
    /\ \E other \in documents : Cardinality(PageRows(other.document_id)) = 2

\* C4: store_documents called with an empty Page Record sequence opens no
\* connection, writes nothing and creates no Document.
C4_EmptyInputWritesNothing ==
  \A p \in Procs :
    (caller[p] # "none" /\ pages[p] = <<>> /\ pc[p] \in {"returned", "raised", "insert_document", "insert_pages"}) =>
      /\ pc[p] = "returned"
      /\ ~ opened[p]
      /\ document_id[p] = NoId
      /\ tx[p] = NoTx
      /\ \A g \in ingested : g.pages # <<>>
      /\ NoOtherCommit(p) => /\ documents = before[p].documents
                             /\ raw_pages = before[p].raw_pages

C4_Witness ==
  \E p \in Procs :
    /\ caller[p] = "direct"
    /\ pages[p] = <<>>
    /\ pc[p] = "returned"
    /\ before[p].documents # {}
    /\ documents = before[p].documents
    /\ raw_pages = before[p].raw_pages
    /\ document_id_seq = Cardinality(documents)

\* the file has N pages and extract_text() raises on none of them
Readable(file) ==
  /\ file.kind = "pdf"
  /\ \A k \in 1..Len(file.pages) : file.pages[k].kind # "raise"

\* C5: read_pdf returns the complete list of N Page Records, numbered 1..N
\* in order, when the file is a valid document whose pages are all
\* processed, and the empty list otherwise (missing file, invalid document,
\* a failure on any page, also after earlier pages were appended); it never
\* returns a proper non-empty prefix and never raises.
C5_AllPagesOrNone ==
  read_result # NotCalled =>
    /\ read_result.raised = "none"
    /\ IF Readable(file_path)
       THEN /\ Len(read_result.value) = Len(file_path.pages)
            /\ \A k \in 1..Len(read_result.value) : read_result.value[k].pageNumber = k
       ELSE read_result.value = <<>>

C5_Witness ==
  /\ read_result # NotCalled
  /\ file_path.kind = "pdf"
  /\ Len(file_path.pages) = 2
  /\ file_path.pages[1].kind = "text"
  /\ file_path.pages[1].text # <<>>
  /\ file_path.pages[2].kind = "raise"
  /\ read_result.value = <<>>

\* the whitespace-delimited tokens of a text, counted by their first characters
TokenStarts(text) ==
  {i \in 1..Len(text) : ~ IsSpace(text[i]) /\ (i = 1 \/ IsSpace(text[i - 1]))}

\* C6: in every Page Record returned by read_pdf the text has no null
\* character, is the raw extracted text (the empty string for None) with
\* each null replaced one for one by U+FFFD, numCharacters is the length of
\* that text and numWords the number of its whitespace-delimited tokens.
C6_SanitizedTextAndCounts ==
  \A k \in 1..Len(read_result.value) :
    LET rec == read_result.value[k]
        page == file_path.pages[rec.pageNumber]
        raw == IF page.kind = "none" THEN <<>> ELSE page.text
    IN  /\ \A i \in 1..Len(rec.text) : rec.text[i] # NUL
        /\ Len(rec.text) = Len(raw)
        /\ \A i \in 1..Len(raw) : rec.text[i] = (IF raw[i] = NUL THEN FFFD ELSE raw[i])
        /\ rec.numCharacters = Len(rec.text)
        /\ rec.numWords = Cardinality(TokenStarts(rec.text))

C6_Witness ==
  /\ Len(read_result.value) = 2
  /\ file_path.pages[1].kind = "none"
  /\ file_path.pages[2].text = <<NUL, " ", "a">>
  /\ read_result.value[1].numCharacters = 0
  /\ read_result.value[2].text = <<FFFD, " ", "a">>
  /\ read_result.value[2].numWords = 2
  /\ read_result.value[2].numCharacters = 3

\* what retrieve_pages_from_db shows of a Page Record
AsStored(rec) == [page_number |-> rec.pageNumber,
                  page_text |-> rec.text,
                  number_words |-> rec.numWords,
                  number_characters |-> rec.numCharacters]

Shown(row) == [page_number |-> row.page_number,
               page_text |-> row.page_text,
               number_words |-> row.number_words,
               number_characters |-> row.number_characters]

NonEmptyPages(pgs) == SelectSeq(pgs, LAMBDA rec : rec.text # <<>>)

\* C7: retrieve_pages_from_db(d) is exactly the Stored Pages of document d,
\* in strictly ascending page_number order; for the id of a committed
\* ingestion it is the subsequence of the ingestion's Page Records with
\* non-empty text, with equal page number, text and counts; for an id
\* without rows it is the empty list.
C7_RetrieveOrderedSubsequence ==
  \A d \in 1..(document_id_seq + 1) :
    LET res == retrieve_pages_from_db(d)
    IN  /\ {res[k] : k \in 1..Len(res)} = PageRows(d)
        /\ Len(res) = Cardinality(PageRows(d))
        /\ \A k \in 1..(Len(res) - 1) : res[k].page_number < res[k + 1].page_number
        /\ \A g \in ingested :
             (g.document_id = d /\ DocumentRows(d) # {}) =>
               /\ Len(res) = Len(NonEmptyPages(g.pages))
               /\ \A k \in 1..Len(res) : Shown(res[k]) = AsStored(NonEmptyPages(g.pages)[k])
        /\ PageRows(d) = {} => res = <<>>

C7_Witness ==
  /\ retrieved.document_id = 2
  /\ retrieved.rows = retrieve_pages_from_db(2)
  /\ Len(retrieved.rows) = 2
  /\ retrieved.rows[1].page_number = 1
  /\ retrieved.rows[2].page_number = 2
  /\ PageRows(1) # {}

\* C8 as stated: a --parse run ends with code 1 when the file does not
\* exist or no pages were extracted, and with code 0 when pages were
\* extracted and stored.
C8_ExitCodeOneWithoutPages ==
  \A p \in Procs :
    (caller[p] = "main" /\ pc[p] = "exited") =>
      /\ (path[p].kind = "missing" \/ read_pdf(path[p]).value = <<>>) => exit_code[p] = 1
      /\ (pages[p] # <<>> /\ failed[p] = "none") => exit_code[p] = 0

\* C8, amended: a --parse run ends with code 1 when the file does not
\* exist, and with code 0 both when the file exists but no pages were
\* extracted from it and when pages were extracted and stored.
C8_ExitCodeOneOnlyForMissingFile ==
  \A p \in Procs :
    (caller[p] = "main" /\ pc[p] = "exited") =>
      /\ path[p].kind = "missing" => exit_code[p] = 1
      /\ (path[p].kind # "missing" /\ read_pdf(path[p]).value = <<>>) => exit_code[p] = 0
      /\ (pages[p] # <<>> /\ failed[p] = "none") => exit_code[p] = 0

C8_Witness ==
  \E p, q \in Procs :
    /\ caller[p] = "main" /\ pc[p] = "exited"
    /\ path[p].kind = "invalid" /\ exit_code[p] = 0
    /\ caller[q] = "main" /\ pc[q] = "exited"
    /\ path[q].kind = "missing" /\ exit_code[q] = 1

\* C9: at every point a reader sees of an ingestion either no Document row
\* and no page, or the Document row together with all K of its pages with
\* non-empty text.
C9_NoPartialDocumentVisible ==
  \A g \in ingested :
    LET d == g.document_id
        seen == retrieve_pages_from_db(d)
    IN  \/ DocumentRows(d) = {} /\ seen = <<>>
        \/ Cardinality(DocumentRows(d)) = 1 /\ Len(seen) = NonEmptyCount(g.pages)

C9_Witness ==
  \E p \in Procs :
    /\ pc[p] = "insert_pages"
    /\ Cardinality(tx[p].raw_pages) = 1
    /\ Len(page_records[p]) = 1
    /\ retrieved.document_id = document_id[p]
    /\ retrieved.rows = <<>>
    /\ documents # {}

Printed(p, msg) == \E k \in 1..Len(stdout[p]) : stdout[p][k] = msg

\* C10: in a --parse run where pages were extracted, the success message is
\* printed exactly when store_documents committed the document, and the
\* failure message only when the document was not stored.
C10_MessageMatchesOutcome ==
  \A p \in Procs :
    (caller[p] = "main" /\ pc[p] = "exited" /\ pages[p] # <<>>) =>
      /\ Printed(p, "Document and pages stored successfully with Document ID")
           <=> DocumentRows(document_id[p]) # {}
      /\ Printed(p, "Failed to store document and pages.")
           => DocumentRows(document_id[p]) = {}

====
